---- MODULE Spec2Model ----
(***************************************************************************)
(* Model of src/hack/Buchsbaum_frequency.py.                               *)
(*                                                                         *)
(* The module is loaded one top-level statement at a time (imports, the    *)
(* def of buchsbaum_frequency, the three alias assignments); once loaded,  *)
(* a caller calls the function through one of its bound names.             *)
(*                                                                         *)
(* Numbers.  A real number q is an exact fraction <<num, den>> in lowest   *)
(* terms with den > 0; <<0, 0>> is the float NaN (0/0) and <<1, 0>> is     *)
(* +inf (x/0, x > 0).  A frequency s * sqrt(q) is kept as its sign s and   *)
(* its radicand q, because sqrt leaves the rationals.  Units are chosen    *)
(* so that the elementary charge and the vacuum permittivity are 1 and     *)
(* masses are in proton masses.  Float rounding is not modelled: the       *)
(* arithmetic is exact.                                                    *)
(***************************************************************************)
EXTENDS Integers, Sequences, FiniteSets, TLC

VARIABLES pc, annotations, globals, trace

vars == <<pc, annotations, globals, trace>>

(* ---- bounds of the model ---- *)
MaxB == 1
MaxN == 1
MaxZ == 2

(* ---- exact arithmetic ---- *)
Abs(x) == IF x < 0 THEN -x ELSE x

Sgn(x) == IF x < 0 THEN -1 ELSE IF x = 0 THEN 0 ELSE 1

RECURSIVE GCD(_, _)
GCD(a, b) == IF b = 0 THEN a ELSE GCD(b, a % b)

NaN == <<0, 0>>

Inf == <<1, 0>>

IsFinite(q) == q[2] # 0

Norm(n, d) ==
    IF d = 0 THEN (IF n = 0 THEN NaN ELSE Inf)
    ELSE LET g == GCD(Abs(n), Abs(d)) IN <<(Sgn(d) * n) \div g, Abs(d) \div g>>

RMul(a, b) ==
    IF a = NaN \/ b = NaN THEN NaN
    ELSE IF IsFinite(a) /\ IsFinite(b) THEN Norm(a[1] * b[1], a[2] * b[2])
    ELSE IF a[1] = 0 \/ b[1] = 0 THEN NaN ELSE Inf

RAdd(a, b) ==
    IF a = NaN \/ b = NaN THEN NaN
    ELSE IF IsFinite(a) /\ IsFinite(b) THEN Norm(a[1] * b[2] + b[1] * a[2], a[2] * b[2])
    ELSE Inf

RDiv(a, b) ==
    IF a = NaN \/ b = NaN THEN NaN
    ELSE IF IsFinite(a) /\ IsFinite(b) THEN Norm(a[1] * b[2], a[2] * b[1])
    ELSE IF IsFinite(b) THEN Inf
    ELSE IF IsFinite(a) THEN <<0, 1>> ELSE NaN

(* ---- Python objects ---- *)
None == <<>>

Some(x) == <<x>>

RadPerS == "rad/s"

NoUnit == <<"", 0>>

Value(s, q, un) == [kind |-> "value", exc |-> "", sign |-> s, sq |-> q, unit |-> un]

Raise(e) == [kind |-> "raise", exc |-> e, sign |-> 0, sq |-> <<0, 1>>, unit |-> NoUnit]

Unset == [kind |-> "unset", exc |-> "", sign |-> 0, sq |-> <<0, 1>>, unit |-> NoUnit]

Quantity(v, un) == [value |-> v, unit |-> un]

(* ---- astropy.units arithmetic on quantities ---- *)
(* A unit is <<base, exponent>>; a squared frequency carries exponent 2.   *)
Pow2(x) == [val |-> x.sq, unit |-> <<x.unit[1], 2 * x.unit[2]>>]

QMul(a, b) == [val |-> RMul(a.val, b.val), unit |-> <<a.unit[1], a.unit[2] + b.unit[2]>>]

QAdd(a, b) == [val |-> RAdd(a.val, b.val), unit |-> a.unit]

QDiv(a, b) == [val |-> RDiv(a.val, b.val), unit |-> <<a.unit[1], a.unit[2] - b.unit[2]>>]

np_sqrt(a) ==
    IF a.val # NaN /\ a.val[1] < 0 THEN Value(0, NaN, <<a.unit[1], a.unit[2] \div 2>>)
    ELSE Value(Sgn(a.val[1]), a.val, <<a.unit[1], a.unit[2] \div 2>>)

(* ---- plasmapy.particles: the species the callers pass ---- *)
(* mass in proton masses, charge in elementary charges.  "n" is neutral.   *)
(* Species without charge information (such as "He-4") are left out.       *)
Species ==
    [name \in {"p", "D+", "He-4 2+", "n"} |->
        CASE name = "p" -> [mass |-> 1, charge |-> 1]
          [] name = "D+" -> [mass |-> 2, charge |-> 1]
          [] name = "He-4 2+" -> [mass |-> 4, charge |-> 2]
          [] name = "n" -> [mass |-> 1, charge |-> 0]]

Particle == DOMAIN Species \cup {"not-a-particle"}

Resolves(particle) == particle \in DOMAIN Species

(* ---- plasmapy.formulary.frequencies ---- *)
(* omega_c = |Z| e |B| / m  (Z keeps its sign when signed)                  *)
gyrofrequency(B, particle, signed, Z) ==
    IF B.unit # "T" THEN Raise("UnitTypeError")
    ELSE IF ~Resolves(particle) THEN Raise("InvalidParticleError")
    ELSE LET m == Species[particle].mass
             Z0 == IF Z = None THEN Species[particle].charge ELSE Z[1]
             Zs == IF signed THEN Z0 ELSE Abs(Z0)
             r == Norm(Zs * Abs(B.value), m)
         IN Value(Sgn(r[1]), RMul(r, r), <<RadPerS, 1>>)

(* omega_p = |Z| e sqrt(n / (eps0 m)), Z the species' own charge number     *)
(* when z_mean is None                                                      *)
plasma_frequency(n, particle, z_mean) ==
    IF n.unit # "m-3" THEN Raise("UnitTypeError")
    ELSE IF n.value < 0 THEN Raise("ValueError")
    ELSE IF ~Resolves(particle) THEN Raise("ValueError")
    ELSE LET m == Species[particle].mass
             Z == Abs(IF z_mean = None THEN Species[particle].charge ELSE z_mean[1])
             q == Norm(Z * Z * n.value, m)
         IN Value(Sgn(q[1]), q, <<RadPerS, 1>>)

(* ---- buchsbaum_frequency ---- *)
(* The locals after the body has run; an exception raised by a sub-call    *)
(* leaves the later locals unset and becomes the outcome of the call.      *)
Frame(c1, c2, p1, p2, res) ==
    [omega_c1 |-> c1, omega_c2 |-> c2, omega_p1 |-> p1, omega_p2 |-> p2, result |-> res]

(* line 61 with the denominator of the docstring, lines 48-49 *)
Combine_docstring(omega_c1, omega_c2, omega_p1, omega_p2) ==
    np_sqrt(QDiv(QAdd(QMul(Pow2(omega_p1), Pow2(omega_c2)),
                      QMul(Pow2(omega_p2), Pow2(omega_c1))),
                 QAdd(Pow2(omega_p2), Pow2(omega_p2))))

(* line 61 with each plasma frequency paired with its own gyrofrequency *)
Combine_own(omega_c1, omega_c2, omega_p1, omega_p2) ==
    np_sqrt(QDiv(QAdd(QMul(Pow2(omega_p1), Pow2(omega_c1)),
                      QMul(Pow2(omega_p2), Pow2(omega_c2))),
                 QAdd(Pow2(omega_p1), Pow2(omega_p2))))

(* line 61 with a division that raises on a zero denominator *)
Combine_guarded(omega_c1, omega_c2, omega_p1, omega_p2) ==
    IF QAdd(Pow2(omega_p1), Pow2(omega_p2)).val = <<0, 1>>
    THEN Raise("ZeroDivisionError")
    ELSE np_sqrt(QDiv(QAdd(QMul(Pow2(omega_p1), Pow2(omega_c2)),
                           QMul(Pow2(omega_p2), Pow2(omega_c1))),
                      QAdd(Pow2(omega_p1), Pow2(omega_p2))))

Combine(omega_c1, omega_c2, omega_p1, omega_p2) ==
    np_sqrt(QDiv(QAdd(QMul(Pow2(omega_p1), Pow2(omega_c2)),
                      QMul(Pow2(omega_p2), Pow2(omega_c1))),
                 QAdd(Pow2(omega_p1), Pow2(omega_p2))))

(* the body with a failing plasma_frequency call recovered as zero density *)
buchsbaum_recovering(B, n1, n2, particle1, particle2, Z1, Z2, to_hz) ==
    LET omega_c1 == gyrofrequency(B, particle1, FALSE, Z1)
        omega_c2 == gyrofrequency(B, particle2, FALSE, Z2)
        p1 == plasma_frequency(n1, particle1, None)
        p2 == plasma_frequency(n2, particle2, None)
        omega_p1 == IF p1.kind = "raise" THEN Value(0, <<0, 1>>, <<RadPerS, 1>>) ELSE p1
        omega_p2 == IF p2.kind = "raise" THEN Value(0, <<0, 1>>, <<RadPerS, 1>>) ELSE p2
    IN  IF omega_c1.kind = "raise" THEN Frame(omega_c1, Unset, Unset, Unset, omega_c1)
        ELSE IF omega_c2.kind = "raise" THEN Frame(omega_c1, omega_c2, Unset, Unset, omega_c2)
        ELSE Frame(omega_c1, omega_c2, omega_p1, omega_p2,
                   Combine(omega_c1, omega_c2, omega_p1, omega_p2))

(* the body with the charge overrides passed on as z_mean *)
buchsbaum_zmean(B, n1, n2, particle1, particle2, Z1, Z2, to_hz) ==
    LET omega_c1 == gyrofrequency(B, particle1, FALSE, Z1)
        omega_c2 == gyrofrequency(B, particle2, FALSE, Z2)
        omega_p1 == plasma_frequency(n1, particle1, Z1)
        omega_p2 == plasma_frequency(n2, particle2, Z2)
    IN  IF omega_c1.kind = "raise" THEN Frame(omega_c1, Unset, Unset, Unset, omega_c1)
        ELSE IF omega_c2.kind = "raise" THEN Frame(omega_c1, omega_c2, Unset, Unset, omega_c2)
        ELSE IF omega_p1.kind = "raise" THEN Frame(omega_c1, omega_c2, omega_p1, Unset, omega_p1)
        ELSE IF omega_p2.kind = "raise" THEN Frame(omega_c1, omega_c2, omega_p1, omega_p2, omega_p2)
        ELSE Frame(omega_c1, omega_c2, omega_p1, omega_p2,
                   Combine(omega_c1, omega_c2, omega_p1, omega_p2))

(* the body with to_hz honoured: the result handed back in hertz *)
buchsbaum_hz(B, n1, n2, particle1, particle2, Z1, Z2, to_hz) ==
    LET omega_c1 == gyrofrequency(B, particle1, FALSE, Z1)
        omega_c2 == gyrofrequency(B, particle2, FALSE, Z2)
        omega_p1 == plasma_frequency(n1, particle1, None)
        omega_p2 == plasma_frequency(n2, particle2, None)
        omega == Combine(omega_c1, omega_c2, omega_p1, omega_p2)
    IN  IF omega_c1.kind = "raise" THEN Frame(omega_c1, Unset, Unset, Unset, omega_c1)
        ELSE IF omega_c2.kind = "raise" THEN Frame(omega_c1, omega_c2, Unset, Unset, omega_c2)
        ELSE IF omega_p1.kind = "raise" THEN Frame(omega_c1, omega_c2, omega_p1, Unset, omega_p1)
        ELSE IF omega_p2.kind = "raise" THEN Frame(omega_c1, omega_c2, omega_p1, omega_p2, omega_p2)
        ELSE Frame(omega_c1, omega_c2, omega_p1, omega_p2,
                   IF to_hz THEN Value(omega.sign, omega.sq, <<"Hz", 1>>) ELSE omega)

buchsbaum_frequency(B, n1, n2, particle1, particle2, Z1, Z2, to_hz) ==
    LET omega_c1 == gyrofrequency(B, particle1, FALSE, Z1)
        omega_c2 == gyrofrequency(B, particle2, FALSE, Z2)
        omega_p1 == plasma_frequency(n1, particle1, None)
        omega_p2 == plasma_frequency(n2, particle2, None)
    IN  IF omega_c1.kind = "raise" THEN Frame(omega_c1, Unset, Unset, Unset, omega_c1)
        ELSE IF omega_c2.kind = "raise" THEN Frame(omega_c1, omega_c2, Unset, Unset, omega_c2)
        ELSE IF omega_p1.kind = "raise" THEN Frame(omega_c1, omega_c2, omega_p1, Unset, omega_p1)
        ELSE IF omega_p2.kind = "raise" THEN Frame(omega_c1, omega_c2, omega_p1, omega_p2, omega_p2)
        ELSE Frame(omega_c1, omega_c2, omega_p1, omega_p2,
                   Combine(omega_c1, omega_c2, omega_p1, omega_p2))

(* ---- the inputs callers pass ---- *)
BInputs == {Quantity(b, "T") : b \in -MaxB..MaxB} \cup {Quantity(1, "m")}

NInputs == {Quantity(n, "m-3") : n \in 0..MaxN} \cup {Quantity(1, "s")}

ZInputs == {None} \cup {Some(z) : z \in -1..MaxZ}

(* ---- loading the module ---- *)
Unbound == "<unbound>"

Function == "<function buchsbaum_frequency>"

Imported == "<imported>"

GlobalNames ==
    {"np", "u", "gyrofrequency", "plasma_frequency", "Particle", "Unit",
     "buchsbaum_frequency", "omega_bb_", "omega_ii_", "omega_bi_"}

Aliases == {"omega_bb_", "omega_ii_", "omega_bi_"}

(* names the annotations of lines 7-8 look up, in evaluation order *)
AnnotationNames == {"Unit", "u", "Particle"}

Bind(names, v) == [g \in GlobalNames |-> IF g \in names THEN v ELSE globals[g]]

(* annotations is fixed by the interpreter that loads the module: "eager"  *)
(* evaluates a def's annotations when the def statement runs, "deferred"   *)
(* evaluates them only when they are read.                                 *)
Init ==
    /\ pc = "line1"
    /\ annotations \in {"eager", "deferred"}
    /\ globals = [g \in GlobalNames |-> Unbound]
    /\ trace = <<>>

Import(line, names, next) ==
    /\ pc = line
    /\ globals' = Bind(names, Imported)
    /\ pc' = next
    /\ UNCHANGED <<annotations, trace>>

ImportNumpy == Import("line1", {"np"}, "line2")

ImportUnits == Import("line2", {"u"}, "line3")

ImportFrequencies == Import("line3", {"gyrofrequency", "plasma_frequency"}, "line4")

ImportParticle == Import("line4", {"Particle"}, "line7")

(* def: with eager annotations each annotation is evaluated when the def   *)
(* statement runs, and an unbound name aborts the load with NameError.     *)
DefRaises == annotations = "eager" /\ \E a \in AnnotationNames : globals[a] = Unbound

Def ==
    /\ pc = "line7"
    /\ IF DefRaises
       THEN pc' = "NameError" /\ UNCHANGED globals
       ELSE pc' = "line63" /\ globals' = Bind({"buchsbaum_frequency"}, Function)
    /\ UNCHANGED <<annotations, trace>>

Alias(line, name, next) ==
    /\ pc = line
    /\ globals' = Bind({name}, globals["buchsbaum_frequency"])
    /\ pc' = next
    /\ UNCHANGED <<annotations, trace>>

AliasBB == Alias("line63", "omega_bb_", "line66")

AliasII == Alias("line66", "omega_ii_", "line69")

AliasBI == Alias("line69", "omega_bi_", "loaded")

(* a caller of the loaded module calls the function through a bound name *)
Call ==
    /\ pc = "loaded"
    /\ {name \in Aliases \cup {"buchsbaum_frequency"} : globals[name] = Function} # {}
    /\ \E B \in BInputs, n1 \in NInputs, n2 \in NInputs,
          particle1 \in Particle, particle2 \in Particle,
          Z1 \in ZInputs, Z2 \in ZInputs, to_hz \in BOOLEAN :
          trace' = <<[B |-> B, n1 |-> n1, n2 |-> n2,
                      particle1 |-> particle1, particle2 |-> particle2,
                      Z1 |-> Z1, Z2 |-> Z2, to_hz |-> to_hz,
                      frame |-> buchsbaum_frequency(B, n1, n2, particle1, particle2,
                                                    Z1, Z2, to_hz)]>>
    /\ pc' = "called"
    /\ UNCHANGED <<annotations, globals>>

Next ==
    \/ ImportNumpy
    \/ ImportUnits
    \/ ImportFrequencies
    \/ ImportParticle
    \/ Def
    \/ AliasBB
    \/ AliasII
    \/ AliasBI
    \/ Call

Spec == Init /\ [][Next]_vars

(* ---- what the claims speak about ---- *)
Zero == <<0, 1>>

Done == pc = "called"

Cl == trace[1]

Res == Cl.frame.result

(* the four sub-formula values the claims name, taken from the formulary *)
WC1 == gyrofrequency(Cl.B, Cl.particle1, FALSE, Cl.Z1)

WC2 == gyrofrequency(Cl.B, Cl.particle2, FALSE, Cl.Z2)

WP1 == plasma_frequency(Cl.n1, Cl.particle1, None)

WP2 == plasma_frequency(Cl.n2, Cl.particle2, None)

SubcallsSucceed ==
    WC1.kind = "value" /\ WC2.kind = "value" /\ WP1.kind = "value" /\ WP2.kind = "value"

ValidInputs ==
    /\ Cl.B.unit = "T" /\ Cl.n1.unit = "m-3" /\ Cl.n2.unit = "m-3"
    /\ Cl.n1.value >= 0 /\ Cl.n2.value >= 0
    /\ Resolves(Cl.particle1) /\ Resolves(Cl.particle2)

DensitiesBothZero == Cl.n1.value = 0 /\ Cl.n2.value = 0

PlasmaFrequenciesBothZero == WP1.sq = Zero /\ WP2.sq = Zero

IsDefined(x) == x.kind = "value" /\ IsFinite(x.sq) /\ x.sq[1] >= 0 /\ x.sign >= 0

IsNaN(x) == x.kind = "value" /\ x.sq = NaN

RLeq(a, b) == IsFinite(a) /\ IsFinite(b) /\ a[1] * b[2] <= b[1] * a[2]

(* Res is the non-negative root of the closed form, stated without division *)
ClosedForm ==
    /\ IsDefined(Res)
    /\ Res.unit = <<RadPerS, 1>>
    /\ RAdd(WP1.sq, WP2.sq) # Zero
    /\ RMul(Res.sq, RAdd(WP1.sq, WP2.sq))
         = RAdd(RMul(WP1.sq, WC2.sq), RMul(WP2.sq, WC1.sq))

Swapped ==
    buchsbaum_frequency(Cl.B, Cl.n2, Cl.n1, Cl.particle2, Cl.particle1,
                        Cl.Z2, Cl.Z1, Cl.to_hz)

(* C2: the outcome of a call (value, NaN or exception) equals the outcome  *)
(* of the call with (particle1, n1, Z1) and (particle2, n2, Z2) exchanged. *)
C2_ExchangeSymmetry == Done => Res = Swapped.result

C2_Witness ==
    /\ Done /\ IsDefined(Res) /\ Res.sq # Zero
    /\ Cl.particle1 # Cl.particle2 /\ Cl.n1 # Cl.n2 /\ Cl.Z1 # Cl.Z2
    /\ WC1.sq # WC2.sq /\ WP1.sq # WP2.sq

C5_ZeroDensities ==
    (Done /\ ValidInputs /\ DensitiesBothZero) => (Res.kind = "value" /\ ~IsFinite(Res.sq))

C5_Witness ==
    Done /\ ValidInputs /\ DensitiesBothZero /\ Cl.B.value # 0 /\ IsNaN(Res)

BadParticle == ~Resolves(Cl.particle1) \/ ~Resolves(Cl.particle2)

BadUnit == Cl.B.unit # "T" \/ Cl.n1.unit # "m-3" \/ Cl.n2.unit # "m-3"

Locals == <<Cl.frame.omega_c1, Cl.frame.omega_c2, Cl.frame.omega_p1, Cl.frame.omega_p2>>

(* C6: a call with an unresolvable particle or an incompatible unit ends   *)
(* in the error of a fault that is present, raised by the first failing    *)
(* sub-call; no later sub-call runs and no value is returned.              *)
C6_ErrorPropagation ==
    (Done /\ (BadParticle \/ BadUnit)) =>
        /\ Res.kind = "raise"
        /\ Res.exc \in {"InvalidParticleError", "UnitTypeError"}
        /\ Res.exc = "InvalidParticleError" => BadParticle
        /\ Res.exc = "UnitTypeError" => BadUnit
        /\ \E i \in 1..4 :
              /\ Locals[i] = Res
              /\ \A j \in 1..4 : (j < i => Locals[j].kind = "value")
                              /\ (j > i => Locals[j] = Unset)

C6_Witness ==
    /\ Done /\ Cl.B.unit = "T" /\ Resolves(Cl.particle1) /\ Resolves(Cl.particle2)
    /\ Cl.n1.unit = "m-3" /\ Cl.n2.unit # "m-3"
    /\ Res = Raise("UnitTypeError") /\ Cl.frame.omega_p2 = Res

WithZ(z1, z2) ==
    buchsbaum_frequency(Cl.B, Cl.n1, Cl.n2, Cl.particle1, Cl.particle2, z1, z2, Cl.to_hz)

(* C7: wc1 is computed with Z = Z1, wc2 with Z = Z2, wp1 and wp2 with no   *)
(* override; the call without Z1 has the same wc2, wp1, wp2 and the call   *)
(* without Z2 the same wc1, wp1, wp2, so every two calls that differ in Z1 *)
(* (in Z2) only agree on them.                                             *)
C7_ChargeOverrides ==
    (Done /\ SubcallsSucceed) =>
        /\ Cl.frame.omega_c1 = WC1 /\ Cl.frame.omega_c2 = WC2
        /\ Cl.frame.omega_p1 = WP1 /\ Cl.frame.omega_p2 = WP2
        /\ LET without1 == WithZ(None, Cl.Z2)
               without2 == WithZ(Cl.Z1, None)
           IN  /\ without1.omega_p1 = Cl.frame.omega_p1
               /\ without1.omega_p2 = Cl.frame.omega_p2
               /\ without1.omega_c2 = Cl.frame.omega_c2
               /\ without2.omega_p1 = Cl.frame.omega_p1
               /\ without2.omega_p2 = Cl.frame.omega_p2
               /\ without2.omega_c1 = Cl.frame.omega_c1

C7_Witness ==
    /\ Done /\ SubcallsSucceed
    /\ Cl.Z1 # None /\ Cl.Z1 # Some(Species[Cl.particle1].charge)
    /\ Cl.n1.value # 0 /\ Cl.B.value # 0
    /\ Cl.frame.omega_c1 # WithZ(None, Cl.Z2).omega_c1
    /\ Cl.frame.omega_p1 = WithZ(None, Cl.Z2).omega_p1

(* C8: the outcome with to_hz = TRUE is the outcome with to_hz = FALSE,    *)
(* a value in radians per second.                                          *)
C8_ToHzIgnored ==
    Done =>
        /\ Cl.frame = buchsbaum_frequency(Cl.B, Cl.n1, Cl.n2, Cl.particle1, Cl.particle2,
                                          Cl.Z1, Cl.Z2, ~Cl.to_hz)
        /\ Res.kind = "value" => Res.unit = <<RadPerS, 1>>

C8_Witness == Done /\ Cl.to_hz /\ IsDefined(Res) /\ Res.sq # Zero /\ Res.unit = <<RadPerS, 1>>

LoadEnded == pc \notin {"line1", "line2", "line3", "line4", "line7", "line63", "line66", "line69"}

(* C9: once the load of the module has ended, buchsbaum_frequency and the  *)
(* three aliases are bound to the same function.                           *)
C9_AliasesBound ==
    LoadEnded => \A name \in Aliases \cup {"buchsbaum_frequency"} : globals[name] = Function

====
